---- MODULE Spec2Model ----
(***************************************************************************)
(* A model of scripts/train.py: main(), the training orchestrator.  The    *)
(* state is main()'s local state (pc is its position), the selected       *)
(* configuration node (lib/config/waymo.py), the ordered log of the calls  *)
(* main() makes on its collaborators (train, validate, save_checkpoint,    *)
(* torch.save, ...), and the checkpoint files on disk.                     *)
(*                                                                         *)
(* Numbers: a configured fraction is an exact rational [num, den]; the     *)
(* float product f * len(dataset) is the exact rational product and int()  *)
(* truncates it toward zero.  A weight n / N is an exact reduced rational  *)
(* and a division by zero gives numpy's nan / inf.  IEEE rounding of the   *)
(* product is not modelled.                                                *)
(***************************************************************************)
EXTENDS Integers, Sequences, FiniteSets

\* ------------------------------------------------------------------ bounds

MaxEpoch == 10
MaxValFreq == 3
MaxLen == 4
MaxFracDen == 4
MaxBatch == 2

\* ------------------------------------------------------- program constants

\* _C.TRAIN.END_EPOCH of the shipped waymo configuration
DefaultEndEpoch == 200
\* the checkpoint period of main(): epoch % 5
CheckpointPeriod == 5

\* _C.TRAIN.BATCH_SIZE of the shipped waymo configuration
DefaultBatchSize == 6
\* the value of the loop variable epoch before the loop binds it (epochs are >= 1)
NoEpoch == 0

\* ----------------------------------------------------------------- helpers

RECURSIVE GCD(_, _)
GCD(a, b) == IF b = 0 THEN a ELSE GCD(b, a % b)

Abs(x) == IF x < 0 THEN -x ELSE x

\* a float constant of the configuration, as an exact rational
Frac(n, d) == [num |-> n, den |-> d]

One == Frac(1, 1)

Half == Frac(1, 2)

\* the float 0/0 of numpy (den = 0: num = 0 is nan, num # 0 is inf)
NaN == Frac(0, 0)

RECURSIVE SumSeq(_)
SumSeq(s) == IF s = <<>> THEN 0 ELSE s[1] + SumSeq(Tail(s))

Last(s) == s[Len(s)]

\* --------------------------------------------------------------- the inputs

\* args.load_from: None, or the path of the checkpoint a run wrote at `epoch`
NoPath == [given |-> FALSE, epoch |-> 0]

CheckpointPath(e) == [given |-> TRUE, epoch |-> e]

\* os.environ without RANK, and with RANK = r
NoRank == [set |-> FALSE, val |-> 0]

EnvRank(r) == [set |-> TRUE, val |-> r]

DatasetTypes == {"waymo", "kitti", "Waymo", "nuscenes", ""}

LogDirs == {"runs/", "out/", ""}

Fractions ==
    {f \in [num : 0..MaxFracDen, den : 1..MaxFracDen] :
        f.num <= f.den /\ GCD(f.num, f.den) = 1}

FractionLists ==
    {<<f>> : f \in Fractions}
    \cup {<<f, g>> : f \in Fractions, g \in Fractions}
    \cup {<<f, g, One>> : f \in Fractions, g \in Fractions}

\* the checkpoints an earlier run of the same configuration leaves behind
LoadChoices(b, e) ==
    {NoPath} \cup {CheckpointPath(k) : k \in {j \in (b + 1)..e : j % CheckpointPeriod = 0}}

\* one run's inputs: the command line, the environment, the configuration
\* node's values and the lengths of the two datasets on disk
BaseIn ==
    [dataset_type |-> "waymo", logDir |-> "runs/", load_from |-> NoPath,
     RANK |-> NoRank, len3D |-> 2, len2D |-> 3,
     BEGIN_EPOCH |-> 0, END_EPOCH |-> 1, VAL_FREQ |-> 1, BATCH_SIZE |-> 2,
     DATASETS_FRACTIONS |-> <<One, One>>,
     MASKS_ONLY |-> FALSE, LIDAR_DATA_ONLY |-> FALSE]

ArgInputs ==
    {[BaseIn EXCEPT !.dataset_type = t, !.logDir = d] :
        t \in DatasetTypes, d \in LogDirs}

LoopInputs ==
    UNION {
        {[BaseIn EXCEPT !.BEGIN_EPOCH = b, !.END_EPOCH = e, !.VAL_FREQ = v,
                        !.RANK = r, !.load_from = l] :
            v \in 1..MaxValFreq, r \in {NoRank, EnvRank(0)}, l \in LoadChoices(b, e)} :
        b \in 0..MaxEpoch, e \in 0..MaxEpoch}

DefaultInputs ==
    {[BaseIn EXCEPT !.END_EPOCH = DefaultEndEpoch, !.BATCH_SIZE = DefaultBatchSize]}

MixInputs ==
    {[BaseIn EXCEPT !.len3D = a, !.len2D = b, !.DATASETS_FRACTIONS = fl] :
        a \in 0..MaxLen, b \in 0..MaxLen, fl \in FractionLists}

BatchInputs ==
    {[BaseIn EXCEPT !.len3D = a, !.len2D = b, !.BATCH_SIZE = bs] :
        a \in 0..MaxLen, b \in 0..MaxLen, bs \in 1..MaxBatch}

ModeInputs ==
    {[BaseIn EXCEPT !.len3D = a, !.len2D = b, !.MASKS_ONLY = m, !.LIDAR_DATA_ONLY = l,
                    !.DATASETS_FRACTIONS = fl] :
        a \in 0..MaxLen, b \in 0..MaxLen, m \in BOOLEAN, l \in BOOLEAN,
        fl \in {<<One, One>>, <<Half, One>>, <<One>>}}

\* spec.md 8.8: lengths 1000 and 500, fractions [1.0, 0.5], batch size 10
ScenarioInputs ==
    {[BaseIn EXCEPT !.len3D = 1000, !.len2D = 500,
                    !.DATASETS_FRACTIONS = <<One, Half>>, !.BATCH_SIZE = 10]}

Inputs ==
    ArgInputs \cup LoopInputs \cup DefaultInputs \cup MixInputs \cup BatchInputs
    \cup ModeInputs \cup ScenarioInputs

\* ---------------------------------------------------------------- the state

VARIABLES
    pc,                   \* main()'s position
    args,                 \* parse_args(): dataset_type, logDir, load_from
    environ,              \* os.environ's RANK and the datasets found on disk
    cfg,                  \* which configuration node main() selected
    conf,                 \* the node's values (frozen flag, LOG_DIR, TRAIN.*, DATASET.*)
    rank,
    created,              \* the objects main() has constructed
    writer_dict,
    model_weights,        \* where the model's parameters come from
    last_epoch,           \* lr_scheduler.last_epoch, the argument of the lambda lf
    begin_epoch,
    datasets,
    datasets_fractions,
    dataset_index,
    dataset_samples_list,
    num_samples,
    weights,
    concat_dataset,
    num_batch,
    epoch,
    calls,                \* the calls main() has made on its collaborators, in order
    files,                \* the checkpoint files written
    exc                   \* the exception that ended main(), if any

vars ==
    <<pc, args, environ, cfg, conf, rank, created, writer_dict, model_weights,
      last_epoch, begin_epoch, datasets, datasets_fractions, dataset_index,
      dataset_samples_list, num_samples, weights, concat_dataset, num_batch,
      epoch, calls, files, exc>>

Call(op, e) == [op |-> op, epoch |-> e]

EpochFile(e) == [name |-> "epoch", epoch |-> e]

FinalStateFile == [name |-> "final_state", epoch |-> 0]

\* ------------------------------------------------------- main()'s decisions

SelectConfigFallback(dataset_type) ==
    IF dataset_type = "kitti" THEN "kitti" ELSE "waymo"

\* if / elif / else on args.dataset_type
SelectConfig(dataset_type) ==
    IF dataset_type = "kitti" THEN "kitti"
    ELSE IF dataset_type = "waymo" THEN "waymo"
    ELSE "unsupported"

\* update_config(cfg, args): defrost, set LOG_DIR when logDir is truthy, freeze
update_config(c, a) ==
    [c EXCEPT !.LOG_DIR = IF a.logDir # "" THEN a.logDir ELSE @,
              !.frozen = TRUE]

\* int(os.environ['RANK']) if 'RANK' in os.environ else -1
GlobalRank(env) == IF env.RANK.set THEN env.RANK.val ELSE -1

SetEpochDueNotZero(r) == r # 0

\* if rank != -1
SetEpochDue(r) == r # -1

\* int(x) of the rational a / b, b > 0: truncation toward zero
IntTrunc(a, b) == IF a >= 0 THEN a \div b ELSE -((-a) \div b)

DatasetSamplesCeil(f, len) == -IntTrunc(-(f.num * len) - (f.den - 1), f.den)

\* int(datasets_fraction * len(dataset_))
DatasetSamples(f, len) == IntTrunc(f.num * len, f.den)

\* one element of np.array(dataset_samples_list) / num_samples
Divide(n, d) ==
    IF d = 0 THEN (IF n = 0 THEN NaN ELSE Frac(IF n > 0 THEN 1 ELSE -1, 0))
    ELSE LET g == GCD(Abs(n), Abs(d))
             sgn == IF d < 0 THEN -1 ELSE 1
         IN Frac(sgn * (n \div g), sgn * (d \div g))

WeightsUniform(samples, total) ==
    [i \in 1..Len(samples) |-> Divide(1, Len(samples))]

\* np.array(dataset_samples_list) / num_samples
Weights(samples, total) ==
    [i \in 1..Len(samples) |-> Divide(samples[i], total)]

RECURSIVE CumSum(_, _)
CumSum(s, acc) ==
    IF s = <<>> THEN <<>> ELSE <<acc + s[1]>> \o CumSum(Tail(s), acc + s[1])

\* ConcatDataset(datasets): the datasets and the running sum of their lengths
ConcatDataset(ds) ==
    [datasets |-> ds,
     cumulative_sizes |-> CumSum([i \in 1..Len(ds) |-> ds[i].len], 0)]

\* len(concat_dataset)
ConcatLen(cd) ==
    IF cd.cumulative_sizes = <<>> THEN 0 ELSE Last(cd.cumulative_sizes)

\* concat_dataset[idx]: the dataset holding the combined index idx (0-based) and
\* the local index in it
ConcatItem(cd, idx) ==
    LET d == CHOOSE i \in 1..Len(cd.cumulative_sizes) :
                 /\ idx < cd.cumulative_sizes[i]
                 /\ \A j \in 1..(i - 1) : idx >= cd.cumulative_sizes[j]
    IN [dataset |-> d,
        local |-> IF d = 1 THEN idx ELSE idx - cd.cumulative_sizes[d - 1]]

\* len(train_loader): the batches of one epoch
LoaderLen(n, batch_size) == n \div batch_size

\* train(): the steps one training pass adds to writer_dict['train_global_steps']
TrainPass(wd, nb) ==
    [wd EXCEPT !.train_global_steps = @ + nb]

ValidationDueNoLast(e, c) == e % c.VAL_FREQ = 0

\* epoch % cfg.TRAIN.VAL_FREQ == 0 or epoch == cfg.TRAIN.END_EPOCH
ValidationDue(e, c) == e % c.VAL_FREQ = 0 \/ e = c.END_EPOCH

CheckpointDueNotLast(e, c) == e % CheckpointPeriod = 0 /\ e # c.END_EPOCH

\* epoch % 5 == 0
CheckpointDue(e, c) == e % CheckpointPeriod = 0

\* -------------------------------------------------------------------- Init

Init ==
    \E in \in Inputs :
        /\ pc = "select_cfg"
        /\ args = [dataset_type |-> in.dataset_type, logDir |-> in.logDir,
                   load_from |-> in.load_from]
        /\ environ = [RANK |-> in.RANK, len3D |-> in.len3D, len2D |-> in.len2D]
        /\ cfg = "unbound"
        /\ conf = [frozen |-> FALSE, LOG_DIR |-> "runs/",
                   BEGIN_EPOCH |-> in.BEGIN_EPOCH, END_EPOCH |-> in.END_EPOCH,
                   VAL_FREQ |-> in.VAL_FREQ, BATCH_SIZE |-> in.BATCH_SIZE,
                   DATASETS_FRACTIONS |-> in.DATASETS_FRACTIONS,
                   MASKS_ONLY |-> in.MASKS_ONLY,
                   LIDAR_DATA_ONLY |-> in.LIDAR_DATA_ONLY]
        /\ rank = -1
        /\ created = {}
        /\ writer_dict = [exists |-> FALSE, train_global_steps |-> 0,
                          valid_global_steps |-> 0]
        /\ model_weights = [from |-> "none", epoch |-> 0]
        /\ last_epoch = -1
        /\ begin_epoch = 0
        /\ datasets = <<>>
        /\ datasets_fractions = <<>>
        /\ dataset_index = 0
        /\ dataset_samples_list = <<>>
        /\ num_samples = 0
        /\ weights = <<>>
        /\ concat_dataset = [datasets |-> <<>>, cumulative_sizes |-> <<>>]
        /\ num_batch = 0
        /\ epoch = NoEpoch
        /\ calls = <<>>
        /\ files = {}
        /\ exc = "none"

\* ----------------------------------------------------------------- actions

\* main(): the selection of cfg by args.dataset_type, or ValueError
SelectCfg ==
    /\ pc = "select_cfg"
    /\ LET c == SelectConfig(args.dataset_type) IN
           IF c = "unsupported"
           THEN /\ pc' = "error"
                /\ exc' = "ValueError"
                /\ cfg' = cfg
           ELSE /\ pc' = "update_config"
                /\ exc' = exc
                /\ cfg' = c
    /\ UNCHANGED <<args, environ, conf, rank, created, writer_dict, model_weights,
                   last_epoch, begin_epoch, datasets, datasets_fractions,
                   dataset_index, dataset_samples_list, num_samples, weights,
                   concat_dataset, num_batch, epoch, calls, files>>

\* update_config(cfg, args)
UpdateConfig ==
    /\ pc = "update_config"
    /\ conf' = update_config(conf, args)
    /\ pc' = "create_logger"
    /\ UNCHANGED <<args, environ, cfg, rank, created, writer_dict, model_weights,
                   last_epoch, begin_epoch, datasets, datasets_fractions,
                   dataset_index, dataset_samples_list, num_samples, weights,
                   concat_dataset, num_batch, epoch, calls, files, exc>>

\* rank, create_logger, SummaryWriter and the two global step counters
CreateLogger ==
    /\ pc = "create_logger"
    /\ rank' = GlobalRank(environ)
    /\ created' = created \cup {"logger", "writer"}
    /\ writer_dict' = [exists |-> TRUE, train_global_steps |-> 0,
                       valid_global_steps |-> 0]
    /\ pc' = "create_model"
    /\ UNCHANGED <<args, environ, cfg, conf, model_weights, last_epoch, begin_epoch,
                   datasets, datasets_fractions, dataset_index,
                   dataset_samples_list, num_samples, weights, concat_dataset,
                   num_batch, epoch, calls, files, exc>>

\* the model, and load_state_dict(torch.load(args.load_from)['state_dict'])
CreateModel ==
    /\ pc = "create_model"
    /\ created' = created \cup {"model"}
    /\ model_weights' =
           IF args.load_from.given
           THEN [from |-> "checkpoint", epoch |-> args.load_from.epoch]
           ELSE [from |-> "imagenet", epoch |-> 0]
    /\ pc' = "create_optimizer"
    /\ UNCHANGED <<args, environ, cfg, conf, rank, writer_dict, last_epoch,
                   begin_epoch, datasets, datasets_fractions, dataset_index,
                   dataset_samples_list, num_samples, weights, concat_dataset,
                   num_batch, epoch, calls, files, exc>>

\* criterion, optimizer, LambdaLR (its constructor takes the step to
\* last_epoch = 0) and begin_epoch = cfg.TRAIN.BEGIN_EPOCH
CreateOptimizer ==
    /\ pc = "create_optimizer"
    /\ created' = created \cup {"criterion", "optimizer", "lr_scheduler"}
    /\ last_epoch' = 0
    /\ begin_epoch' = conf.BEGIN_EPOCH
    /\ pc' = "build_datasets"
    /\ UNCHANGED <<args, environ, cfg, conf, rank, writer_dict, model_weights,
                   datasets, datasets_fractions, dataset_index,
                   dataset_samples_list, num_samples, weights, concat_dataset,
                   num_batch, epoch, calls, files, exc>>

\* the training datasets of the mode, their fractions, and the empty budget
BuildDatasets ==
    /\ pc = "build_datasets"
    /\ IF conf.MASKS_ONLY
       THEN /\ datasets' = <<[name |-> "Segmentation 2D", len |-> environ.len2D]>>
            /\ datasets_fractions' = <<One>>
       ELSE IF conf.LIDAR_DATA_ONLY
       THEN /\ datasets' = <<[name |-> "Segmentation repojected 3D",
                              len |-> environ.len3D]>>
            /\ datasets_fractions' = <<One>>
       ELSE /\ datasets' = <<[name |-> "Segmentation repojected 3D",
                              len |-> environ.len3D],
                             [name |-> "Segmentation 2D", len |-> environ.len2D]>>
            /\ datasets_fractions' = conf.DATASETS_FRACTIONS
    /\ created' = created \cup {"datasets"}
    /\ dataset_samples_list' = <<>>
    /\ num_samples' = 0
    /\ dataset_index' = 0
    /\ pc' = "mix"
    /\ UNCHANGED <<args, environ, cfg, conf, rank, writer_dict, model_weights,
                   last_epoch, begin_epoch, weights, concat_dataset, num_batch,
                   epoch, calls, files, exc>>

\* one round of the loop over enumerate(datasets); dataset_index is the number
\* of rounds done, so the round's 0-based index
MixDataset ==
    /\ pc = "mix"
    /\ IF dataset_index >= Len(datasets)
       THEN /\ pc' = "build_loader"
            /\ UNCHANGED <<dataset_index, dataset_samples_list, num_samples, exc>>
       ELSE IF dataset_index >= Len(datasets_fractions)
       THEN /\ pc' = "error"
            /\ exc' = "IndexError"
            /\ UNCHANGED <<dataset_index, dataset_samples_list, num_samples>>
       ELSE LET dataset_samples ==
                    DatasetSamples(datasets_fractions[dataset_index + 1],
                                   datasets[dataset_index + 1].len)
            IN /\ dataset_samples_list' = Append(dataset_samples_list, dataset_samples)
               /\ num_samples' = num_samples + dataset_samples
               /\ dataset_index' = dataset_index + 1
               /\ pc' = "mix"
               /\ exc' = exc
    /\ UNCHANGED <<args, environ, cfg, conf, rank, created, writer_dict,
                   model_weights, last_epoch, begin_epoch, datasets,
                   datasets_fractions, weights, concat_dataset, num_batch, epoch,
                   calls, files>>

\* weights, ConcatDataset, WeightedDataLoader and num_batch
BuildLoader ==
    /\ pc = "build_loader"
    /\ weights' = Weights(dataset_samples_list, num_samples)
    /\ concat_dataset' = ConcatDataset(datasets)
    /\ created' = created \cup {"train_loader"}
    /\ num_batch' = LoaderLen(num_samples, conf.BATCH_SIZE)
    /\ pc' = "build_valid_loader"
    /\ UNCHANGED <<args, environ, cfg, conf, rank, writer_dict, model_weights,
                   last_epoch, begin_epoch, datasets, datasets_fractions,
                   dataset_index, dataset_samples_list, num_samples, epoch, calls,
                   files, exc>>

\* the validation dataset and its loader
BuildValidLoader ==
    /\ pc = "build_valid_loader"
    /\ created' = created \cup {"valid_loader"}
    /\ pc' = "loop"
    /\ UNCHANGED <<args, environ, cfg, conf, rank, writer_dict, model_weights,
                   last_epoch, begin_epoch, datasets, datasets_fractions,
                   dataset_index, dataset_samples_list, num_samples, weights,
                   concat_dataset, num_batch, epoch, calls, files, exc>>

\* for epoch in range(begin_epoch+1, cfg.TRAIN.END_EPOCH+1)
LoopHead ==
    /\ pc = "loop"
    /\ LET next == IF epoch = NoEpoch THEN begin_epoch + 1 ELSE epoch + 1 IN
           IF next <= conf.END_EPOCH
           THEN /\ epoch' = next
                /\ pc' = "set_epoch"
           ELSE /\ epoch' = epoch
                /\ pc' = "final"
    /\ UNCHANGED <<args, environ, cfg, conf, rank, created, writer_dict,
                   model_weights, last_epoch, begin_epoch, datasets,
                   datasets_fractions, dataset_index, dataset_samples_list,
                   num_samples, weights, concat_dataset, num_batch, calls, files,
                   exc>>

\* if rank != -1: train_loader.sampler.set_epoch(epoch)
SetEpoch ==
    /\ pc = "set_epoch"
    /\ calls' = IF SetEpochDue(rank) THEN Append(calls, Call("set_epoch", epoch))
                ELSE calls
    /\ pc' = "train"
    /\ UNCHANGED <<args, environ, cfg, conf, rank, created, writer_dict,
                   model_weights, last_epoch, begin_epoch, datasets,
                   datasets_fractions, dataset_index, dataset_samples_list,
                   num_samples, weights, concat_dataset, num_batch, epoch, files,
                   exc>>

\* train(cfg, train_loader, model, ..., epoch, num_batch, ..., writer_dict, ...)
Train ==
    /\ pc = "train"
    /\ calls' = Append(calls, Call("train", epoch))
    /\ writer_dict' = TrainPass(writer_dict, num_batch)
    /\ pc' = "lr_step"
    /\ UNCHANGED <<args, environ, cfg, conf, rank, created, model_weights,
                   last_epoch, begin_epoch, datasets, datasets_fractions,
                   dataset_index, dataset_samples_list, num_samples, weights,
                   concat_dataset, num_batch, epoch, files, exc>>

\* lr_scheduler.step()
LrStep ==
    /\ pc = "lr_step"
    /\ calls' = Append(calls, Call("lr_step", epoch))
    /\ last_epoch' = last_epoch + 1
    /\ pc' = "validate"
    /\ UNCHANGED <<args, environ, cfg, conf, rank, created, writer_dict,
                   model_weights, begin_epoch, datasets, datasets_fractions,
                   dataset_index, dataset_samples_list, num_samples, weights,
                   concat_dataset, num_batch, epoch, files, exc>>

\* if epoch % VAL_FREQ == 0 or epoch == END_EPOCH: validate(epoch, ...)
Validate ==
    /\ pc = "validate"
    /\ calls' = IF ValidationDue(epoch, conf) THEN Append(calls, Call("validate", epoch))
                ELSE calls
    /\ pc' = "checkpoint"
    /\ UNCHANGED <<args, environ, cfg, conf, rank, created, writer_dict,
                   model_weights, last_epoch, begin_epoch, datasets,
                   datasets_fractions, dataset_index, dataset_samples_list,
                   num_samples, weights, concat_dataset, num_batch, epoch, files,
                   exc>>

\* if epoch % 5 == 0: save_checkpoint(..., filename=f'epoch-{epoch}.pth'); the
\* write succeeds, or raises OSError, which nothing in main() catches
Checkpoint ==
    /\ pc = "checkpoint"
    /\ IF CheckpointDue(epoch, conf)
       THEN \E ok \in BOOLEAN :
                /\ calls' = Append(calls, Call("save_checkpoint", epoch))
                /\ files' = IF ok THEN files \cup {EpochFile(epoch)} ELSE files
                /\ pc' = IF ok THEN "loop" ELSE "error"
                /\ exc' = IF ok THEN exc ELSE "OSError"
       ELSE /\ pc' = "loop"
            /\ UNCHANGED <<calls, files, exc>>
    /\ UNCHANGED <<args, environ, cfg, conf, rank, created, writer_dict,
                   model_weights, last_epoch, begin_epoch, datasets,
                   datasets_fractions, dataset_index, dataset_samples_list,
                   num_samples, weights, concat_dataset, num_batch, epoch>>

\* torch.save(model.state_dict(), final_state.pth) and writer.close()
FinalState ==
    /\ pc = "final"
    /\ \E ok \in BOOLEAN :
           /\ calls' = Append(calls, Call("final_state", epoch))
           /\ files' = IF ok THEN files \cup {FinalStateFile} ELSE files
           /\ pc' = IF ok THEN "done" ELSE "error"
           /\ exc' = IF ok THEN exc ELSE "OSError"
    /\ UNCHANGED <<args, environ, cfg, conf, rank, created, writer_dict,
                   model_weights, last_epoch, begin_epoch, datasets,
                   datasets_fractions, dataset_index, dataset_samples_list,
                   num_samples, weights, concat_dataset, num_batch, epoch>>

Next ==
    \/ SelectCfg
    \/ UpdateConfig
    \/ CreateLogger
    \/ CreateModel
    \/ CreateOptimizer
    \/ BuildDatasets
    \/ MixDataset
    \/ BuildLoader
    \/ BuildValidLoader
    \/ LoopHead
    \/ SetEpoch
    \/ Train
    \/ LrStep
    \/ Validate
    \/ Checkpoint
    \/ FinalState

Spec == Init /\ [][Next]_vars

\* ------------------------------------------------------------------ claims

Count(op, e) == Cardinality({i \in 1..Len(calls) : calls[i] = Call(op, e)})

CountOp(op) == Cardinality({i \in 1..Len(calls) : calls[i].op = op})

B == conf.BEGIN_EPOCH

E == conf.END_EPOCH

\* the epochs the loop of a run goes through
RunEpochs == (B + 1)..E

\* the validation step of the cycle of epoch e is behind main()
PastValidation(e) ==
    /\ epoch # NoEpoch
    /\ \/ e < epoch
       \/ e = epoch /\ pc \notin {"set_epoch", "train", "lr_step", "validate"}

\* C1: in a run with BEGIN_EPOCH <= END_EPOCH that completes without an
\* exception, save_checkpoint has been called exactly once for every epoch e
\* with BEGIN_EPOCH < e <= END_EPOCH and e % 5 = 0 and for no other epoch, the
\* files epoch-<e>.pth on disk are exactly those, and final_state has been
\* written exactly once, as the last call, after the cycle of END_EPOCH; in
\* every state a call of save_checkpoint is for such an epoch and a write of
\* final_state is the last call made.
CheckpointCadence ==
    B <= E =>
        /\ \A i \in 1..Len(calls) :
               /\ calls[i].op = "save_checkpoint" =>
                      /\ calls[i].epoch \in RunEpochs
                      /\ calls[i].epoch % 5 = 0
                      /\ Count("save_checkpoint", calls[i].epoch) = 1
               /\ calls[i].op = "final_state" =>
                      /\ i = Len(calls)
                      /\ calls[i].epoch = (IF B < E THEN E ELSE NoEpoch)
                      /\ B < E => Count("train", E) = 1
        /\ pc = "done" =>
               /\ \A e \in RunEpochs :
                      Count("save_checkpoint", e) = (IF e % 5 = 0 THEN 1 ELSE 0)
               /\ {f \in files : f.name = "epoch"}
                      = {EpochFile(e) : e \in {x \in RunEpochs : x % 5 = 0}}
               /\ FinalStateFile \in files
               /\ CountOp("final_state") = 1

\* C1: the shipped configuration's run (BEGIN_EPOCH 0, END_EPOCH 200) has
\* completed with the 40 checkpoints 5, 10, ..., 200 and final_state
CheckpointCadenceWitness ==
    /\ pc = "done"
    /\ B = 0
    /\ E = DefaultEndEpoch
    /\ EpochFile(DefaultEndEpoch) \in files
    /\ EpochFile(5) \in files
    /\ FinalStateFile \in files
    /\ Cardinality(files) = 41

\* C2: validate is called at most once per epoch and only for epochs of the
\* run; once the validation step of the cycle of epoch e is behind main(), it
\* has been called for e exactly when e % VAL_FREQ = 0 or e = END_EPOCH; a
\* completed run has validated every due epoch of BEGIN_EPOCH+1..END_EPOCH,
\* the last one included, and no other.
ValidationCadence ==
    /\ \A i \in 1..Len(calls) :
           calls[i].op = "validate" =>
               /\ calls[i].epoch \in RunEpochs
               /\ Count("validate", calls[i].epoch) = 1
    /\ (epoch # NoEpoch /\ PastValidation(epoch)) =>
           (Count("validate", epoch) = 1
                <=> (epoch % conf.VAL_FREQ = 0 \/ epoch = E))
    /\ pc = "done" =>
           /\ \A e \in RunEpochs :
                  Count("validate", e) = 1 <=> (e % conf.VAL_FREQ = 0 \/ e = E)
           /\ B < E => Count("validate", E) = 1

\* C2: a completed run whose last epoch is no multiple of VAL_FREQ validated
\* it all the same, and skipped an epoch that was not due
ValidationCadenceWitness ==
    /\ pc = "done"
    /\ B < E
    /\ E % conf.VAL_FREQ # 0
    /\ Count("validate", E) = 1
    /\ \E e \in RunEpochs : Count("validate", e) = 0 /\ Count("train", e) = 1

\* the first call of the cycle of epoch e
CycleStart(e) ==
    IF rank # -1 THEN Call("set_epoch", e) ELSE Call("train", e)

\* the call that follows the last call of the cycle of epoch e
AfterCycle(e) ==
    IF e = E THEN Call("final_state", e) ELSE CycleStart(e + 1)

AfterValidation(e) ==
    IF e % 5 = 0 THEN Call("save_checkpoint", e) ELSE AfterCycle(e)

\* the one call the claimed order allows right after the call c
Successor(c) ==
    CASE c.op = "set_epoch" -> Call("train", c.epoch)
      [] c.op = "train" -> Call("lr_step", c.epoch)
      [] c.op = "lr_step" ->
             IF c.epoch % conf.VAL_FREQ = 0 \/ c.epoch = E
             THEN Call("validate", c.epoch) ELSE AfterValidation(c.epoch)
      [] c.op = "validate" -> AfterValidation(c.epoch)
      [] c.op = "save_checkpoint" -> AfterCycle(c.epoch)
      [] OTHER -> Call("nothing", 0)

\* C3: the calls main() makes are, in order, for each epoch e from
\* BEGIN_EPOCH+1 on: set_epoch(e) (only when rank # -1), train(e), the
\* scheduler step, validate(e) when due, save_checkpoint(e) when due, and only
\* then the first call of epoch e+1 (after END_EPOCH: final_state); every call
\* is followed by exactly its successor in this order, so no step of epoch e
\* comes after a step of epoch e+1 and none is left out or repeated.
EpochCycleOrder ==
    /\ Len(calls) >= 1 =>
           calls[1] = (IF B < E THEN CycleStart(B + 1) ELSE Call("final_state", NoEpoch))
    /\ \A i \in 1..(Len(calls) - 1) : calls[i + 1] = Successor(calls[i])
    /\ rank = -1 => CountOp("set_epoch") = 0

\* C3: with several workers (rank # -1) a full cycle of epoch 5 (set_epoch,
\* train, scheduler step, validate, save_checkpoint) is followed by set_epoch
\* and train of epoch 6
EpochCycleOrderWitness ==
    /\ rank # -1
    /\ \E i \in 1..Len(calls) :
           /\ i >= 5
           /\ i + 2 <= Len(calls)
           /\ calls[i - 4] = Call("set_epoch", 5)
           /\ calls[i - 3] = Call("train", 5)
           /\ calls[i - 2] = Call("lr_step", 5)
           /\ calls[i - 1] = Call("validate", 5)
           /\ calls[i] = Call("save_checkpoint", 5)
           /\ calls[i + 1] = Call("set_epoch", 6)
           /\ calls[i + 2] = Call("train", 6)

\* the mixer has produced its weights and handed them to the loader
MixerDone == "train_loader" \in created

K == Len(datasets)

\* n is floor(f * len)
IsFloor(n, f, len) == n * f.den <= f.num * len /\ f.num * len < (n + 1) * f.den

RECURSIVE FracSum(_)
FracSum(w) ==
    IF w = <<>> THEN Frac(0, 1)
    ELSE LET r == FracSum(Tail(w))
         IN Frac(w[1].num * r.den + r.num * w[1].den, w[1].den * r.den)

\* C4: once the mixer is done, for the K datasets and their fractions f_1..f_K
\* the budgets are n_i = floor(f_i * L_i), num_samples is N = n_1 + ... + n_K,
\* the weight of dataset i is the number n_i / N and the weights sum to 1
\* whenever N > 0; lengths 1000 and 500 with fractions [1.0, 0.5] give budgets
\* 1000 and 250, N = 1250, weights 4/5 and 1/5, and 125 batches at batch size 10.
MixerBudget ==
    MixerDone =>
        /\ Len(dataset_samples_list) = K
        /\ Len(weights) = K
        /\ \A i \in 1..K :
               IsFloor(dataset_samples_list[i], datasets_fractions[i], datasets[i].len)
        /\ num_samples = SumSeq(dataset_samples_list)
        /\ num_samples > 0 =>
               /\ \A i \in 1..K :
                      /\ weights[i].den > 0
                      /\ weights[i].num * num_samples
                             = dataset_samples_list[i] * weights[i].den
               /\ FracSum(weights).num = FracSum(weights).den
        /\ ( /\ K = 2
             /\ datasets[1].len = 1000
             /\ datasets[2].len = 500
             /\ datasets_fractions[1] = One
             /\ datasets_fractions[2] = Half ) =>
               /\ dataset_samples_list = <<1000, 250>>
               /\ num_samples = 1250
               /\ weights[1] = Frac(4, 5)
               /\ weights[2] = Frac(1, 5)
               /\ conf.BATCH_SIZE = 10 => num_batch = 125

\* C4: the mixer is done for lengths 1000 and 500 with fractions [1.0, 0.5]
MixerBudgetWitness ==
    /\ MixerDone
    /\ K = 2
    /\ datasets[1].len = 1000
    /\ datasets[2].len = 500
    /\ datasets_fractions = <<One, Half>>
    /\ num_samples = 1250
    /\ num_batch = 125

\* the combined indices of concat_dataset
ConcatIndices == 0..(ConcatLen(concat_dataset) - 1)

\* C5 as stated: once the mixer is done with N > 0, a dataset of fraction 0
\* has weight 0 and no combined index refers to it, and the combined index
\* space has exactly the sum of the floor(f_i * L_i) entries, each a valid
\* (dataset, local index) pair.
ZeroFractionExcluded ==
    (MixerDone /\ num_samples > 0) =>
        /\ \A i \in 1..K :
               datasets_fractions[i].num = 0 =>
                   /\ weights[i] = Frac(0, 1)
                   /\ \A idx \in ConcatIndices :
                          ConcatItem(concat_dataset, idx).dataset # i
        /\ ConcatLen(concat_dataset) = SumSeq(dataset_samples_list)
        /\ \A idx \in ConcatIndices :
               LET it == ConcatItem(concat_dataset, idx)
               IN it.dataset \in 1..K /\ it.local \in 0..(datasets[it.dataset].len - 1)

\* C5 amended: once the mixer is done with N > 0, a dataset of fraction 0 has
\* weight 0 and budget 0; the combined index space handed to the loader is the
\* concatenation of all K datasets in full: it has L_1 + ... + L_K entries,
\* each a valid (dataset, local index) pair, and dataset i has exactly L_i of
\* them whatever its fraction; the sum of the floor(f_i * L_i) is the
\* num_samples handed to the loader beside it.
ZeroFractionWeight ==
    (MixerDone /\ num_samples > 0) =>
        /\ \A i \in 1..K :
               /\ datasets_fractions[i].num = 0 =>
                      weights[i] = Frac(0, 1) /\ dataset_samples_list[i] = 0
               /\ Cardinality({idx \in ConcatIndices :
                                   ConcatItem(concat_dataset, idx).dataset = i})
                      = datasets[i].len
        /\ ConcatLen(concat_dataset) = SumSeq([i \in 1..K |-> datasets[i].len])
        /\ \A idx \in ConcatIndices :
               LET it == ConcatItem(concat_dataset, idx)
               IN it.dataset \in 1..K /\ it.local \in 0..(datasets[it.dataset].len - 1)
        /\ num_samples = SumSeq(dataset_samples_list)
        /\ \A i \in 1..K :
               IsFloor(dataset_samples_list[i], datasets_fractions[i], datasets[i].len)

\* C5: the mixer is done with N > 0 for a non-empty dataset of fraction 0
ZeroFractionWitness ==
    /\ MixerDone
    /\ num_samples > 0
    /\ \E i \in 1..K :
           /\ datasets_fractions[i].num = 0
           /\ datasets[i].len > 0
           /\ weights[i] = Frac(0, 1)

\* C6: with a total budget N = 0, or with a number of configured fractions
\* other than the number K of datasets, no weight vector is ever produced, no
\* loader is built and no training pass is started.
MixerConfigurationErrors ==
    LET bad == \/ Len(datasets_fractions) # Len(datasets)
               \/ dataset_index = Len(datasets) /\ num_samples = 0
    IN ("datasets" \in created /\ bad) =>
           /\ ~MixerDone
           /\ weights = <<>>
           /\ CountOp("train") = 0

\* C7: a run started from the checkpoint of epoch e (--load_from) makes its
\* first training pass for epoch e + 1, with the global train step counter at
\* the value the uninterrupted run had after epoch e.
ResumeContinues ==
    (args.load_from.given /\ pc = "train" /\ CountOp("train") = 0) =>
        /\ epoch = args.load_from.epoch + 1
        /\ writer_dict.train_global_steps = (args.load_from.epoch - B) * num_batch

\* a call of save_checkpoint that left no file: the write failed
FailedSave ==
    \E i \in 1..Len(calls) :
        calls[i].op = "save_checkpoint" /\ EpochFile(calls[i].epoch) \notin files

\* C8: a failed checkpoint write does not abort the run.
CheckpointFailureRecoverable == FailedSave => pc # "error"

\* C9: after the scheduler step of the cycle of epoch e the scheduler's step
\* count (the argument of the cosine lambda) is e, and it is END_EPOCH, the
\* point where the rate is lr0 * LRF, after the last cycle.
SchedulerFollowsEpoch ==
    /\ (epoch # NoEpoch /\ pc \in {"validate", "checkpoint"}) => last_epoch = epoch
    /\ (pc = "done" /\ B < E) => last_epoch = E

\* C10: with a --dataset_type other than "waymo" and "kitti" main() ends with
\* ValueError in its first step: no configuration is selected, the node is
\* neither updated nor frozen, nothing is created (no logger, writer, step
\* counters, model, optimizer, loader), no call is made and no file written;
\* with "waymo" or "kitti" the matching configuration is selected and no
\* ValueError is raised.
InvalidDatasetType ==
    pc # "select_cfg" =>
        IF args.dataset_type \in {"waymo", "kitti"}
        THEN cfg = args.dataset_type /\ exc # "ValueError"
        ELSE /\ pc = "error"
             /\ exc = "ValueError"
             /\ cfg = "unbound"
             /\ conf.frozen = FALSE
             /\ conf.LOG_DIR = "runs/"
             /\ created = {}
             /\ writer_dict.exists = FALSE
             /\ model_weights.from = "none"
             /\ datasets = <<>>
             /\ weights = <<>>
             /\ epoch = NoEpoch
             /\ calls = <<>>
             /\ files = {}

\* C10: main() has ended with ValueError for --dataset_type Waymo
InvalidDatasetTypeWitness ==
    /\ args.dataset_type = "Waymo"
    /\ args.logDir = "out/"
    /\ pc = "error"
    /\ exc = "ValueError"

====
